---- MODULE Spec2Model ----
(***************************************************************************)
(* Model of the update-queue sequencer of ActivityLogTasklist              *)
(* (src/unnamed/part_000): the component state {dismissed, queued}, the    *)
(* props computed by mapStateToProps from the externally held request      *)
(* states, and the handlers that React runs to completion one at a time.   *)
(*                                                                         *)
(* mapStateToProps builds fresh item objects on every run; lodash union    *)
(* compares objects by identity, find/isItemEnqueued compare slugs.  An    *)
(* object can only be named again through this.props or through the        *)
(* closure of an error notice, so a queue entry records whether it is the  *)
(* object of this.props (inProps) and whether it is the object captured by *)
(* the error notice of its slug (inNotice).                                *)
(*                                                                         *)
(* launchTask and onboardingTasks of                                       *)
(* client/my-sites/checklist/onboardingChecklist.js are functions of their *)
(* arguments; LaunchSpec and TasksSpec apply them to every argument.       *)
(***************************************************************************)
EXTENDS Integers, Sequences, FiniteSets, TLC

\* ---------------------------------------------------------------- bounds
MaxClicks == 3     \* number of user actions on the view explored

\* ------------------------------------------------------- candidate items
CoreSlug == "wordpress"
PluginSlug == "pluginA"
ThemeSlug == "themeB"

\* union( coreWithUpdate, pluginWithUpdate, themeWithUpdate ): core first,
\* then plugins, then themes.
ItemOrder == <<CoreSlug, PluginSlug, ThemeSlug>>

Slugs == {ItemOrder[i] : i \in 1..Len(ItemOrder)}

TypeOf(slug) ==
    IF slug = CoreSlug THEN "core"
    ELSE IF slug = PluginSlug THEN "plugin" ELSE "theme"

\* request states of the HTTP/status layer
RawStates == {"uninitialized", "pending", "failure", "success"}

\* normalized updateStatus: "false" stands for the value false (not started)
Statuses == {"false", "inProgress", "error", "completed"}

\* values of the field item.from; "undefined" when the field was never set
FromVals == {"undefined", "", "_from_error"}

\* error notice alitemupdate-<slug>: absent, or holding the item object of
\* the current props ("current") or of earlier props ("stale")
NoticeVals == {"none", "stale", "current"}

VARIABLES
    mounted,      \* the view is mounted
    httpState,    \* [Slugs -> RawStates], request state held outside the component
    themeUpdateNull, \* data.themes.0.update === null in the theme response
    propStatus,   \* [Slugs -> Statuses], updateStatus of this.props items
    propFrom,     \* [Slugs -> FromVals], field from of this.props items
    queued,       \* this.state.queued: sequence of [slug, from, inProps, inNotice]
    dismissed,    \* this.state.dismissed: sequence of slugs
    errNotice,    \* [Slugs -> NoticeVals]
    flight,       \* [Slugs -> dispatches whose terminal status is not yet observed]
    clicks,       \* user actions so far
    plan,         \* progress of the last Update all that dispatched core
    log,          \* calls made by the handler that ran last
    launch,       \* arguments of the launchTask call of the onboarding checklist
    checklist,    \* argument of the onboardingTasks call
    onboarding    \* what the onboardingTasks call returned

\* variables of the onboarding checklist
checklistVars == <<launch, checklist, onboarding>>

vars == <<mounted, httpState, themeUpdateNull, propStatus, propFrom,
          queued, dismissed, errNotice, flight, clicks, plan, log,
          launch, checklist, onboarding>>

\* ------------------------------------------------------------ sequences
Range(s) == {s[i] : i \in 1..Len(s)}

RECURSIVE SeqUniq(_)
\* lodash uniq: keeps the first occurrence of every value
SeqUniq(s) ==
    IF s = <<>> THEN <<>>
    ELSE LET front == SeqUniq(SubSeq(s, 1, Len(s) - 1))
             last == s[Len(s)]
         IN IF last \in Range(front) THEN front ELSE Append(front, last)

\* a queue entry and an item named through ref ("props" or "notice") are
\* the same object
SameObject(e, slug, ref) ==
    /\ e.slug = slug
    /\ IF ref = "props" THEN e.inProps ELSE e.inNotice

\* the item object named through ref, as a queue entry
Item(slug, ref, from, en) ==
    [slug |-> slug, from |-> from,
     inProps |-> (ref = "props" \/ en[slug] = "current"),
     inNotice |-> (ref = "notice" \/ en[slug] = "current")]

RECURSIVE UnionById(_, _, _)
\* lodash union on arrays of objects (SameValueZero = object identity);
\* items are the objects named through ref
UnionById(q, items, ref) ==
    IF items = <<>> THEN q
    ELSE LET it == Head(items)
             q1 == IF \E i \in 1..Len(q) : SameObject(q[i], it.slug, ref)
                   THEN q ELSE Append(q, it)
         IN UnionById(q1, Tail(items), ref)

\* lodash union on arrays of strings
UnionSlugs(a, b) == SeqUniq(a \o b)

Call(c, slug, arg) == [call |-> c, slug |-> slug, arg |-> arg]

\* ------------------------------------------------------- pure functions
getNormalizedStatus(state, isUpdateComplete) ==
    IF state = "pending" THEN "inProgress"
    ELSE IF state = "failure" THEN "error"
    ELSE IF state = "success"
         THEN (IF isUpdateComplete THEN "completed" ELSE "error")
    ELSE "false"

getStatusForTheme(hs, updNull) == getNormalizedStatus(hs, updNull)

getStatusForCore(hs) == getNormalizedStatus(hs, FALSE)

\* state/plugins/installed/selectors is not part of the sources: the plugin
\* status is taken in the same vocabulary
getStatusForPlugin(hs) ==
    IF hs = "pending" THEN "inProgress"
    ELSE IF hs = "failure" THEN "error"
    ELSE IF hs = "success" THEN "completed"
    ELSE "false"

\* updateStatus of every candidate as mapStateToProps computes it
mapStateToProps(hs, updNull) ==
    [s \in Slugs |->
        IF TypeOf(s) = "core" THEN getStatusForCore(hs[s])
        ELSE IF TypeOf(s) = "plugin" THEN getStatusForPlugin(hs[s])
        ELSE getStatusForTheme(hs[s], updNull)]

isItemUpdating(ps, slugs) == \E s \in slugs : ps[s] = "inProgress"

isItemEnqueued(g, q) == \E i \in 1..Len(q) : q[i].slug = g

\* render: candidates whose slug is not dismissed
itemsToUpdate(dis) == {s \in Slugs : s \notin Range(dis)}

\* ------------------------------------------------------------- handlers
\* calls of one kind in a log
CallsOf(lg, c) == SelectSeq(lg, LAMBDA e : e.call = c)

\* continueQueue that passes over a head whose slug is dismissed
continueQueueSkipsDismissed(q, ps) ==
    <<Call("continueQueue", "", "")>> \o
    (IF 0 < Len(q) /\ ~isItemUpdating(ps, Slugs) /\ q[1].slug \notin Range(dismissed)
     THEN <<Call("updateItem", q[1].slug, q[1].from)>>
     ELSE <<>>)

\* continueQueue without the isItemUpdating test
continueQueueUnguarded(q, ps) ==
    <<Call("continueQueue", "", "")>> \o
    (IF 0 < Len(q)
     THEN <<Call("updateItem", q[1].slug, q[1].from)>>
     ELSE <<>>)

\* continueQueue: the call itself and the updateItem call it makes, if any
continueQueue(q, ps) ==
    <<Call("continueQueue", "", "")>> \o
    (IF 0 < Len(q) /\ ~isItemUpdating(ps, Slugs)
     THEN <<Call("updateItem", q[1].slug, q[1].from)>>
     ELSE <<>>)

\* dequeue: this.state.queued.slice( 1 )
dequeue(q) == IF q = <<>> THEN <<>> ELSE Tail(q)

\* dismiss: the slugs added to this.state.dismissed
dismissItems(hasSlug, slug) ==
    IF hasSlug THEN <<slug>> ELSE SeqUniq(ItemOrder)

dismiss(dis, hasSlug, slug) == UnionSlugs(dis, dismissItems(hasSlug, slug))

\* enqueue that puts the item in front of the queue
enqueueInFront(q, slug, ref, from, en) ==
    IF \E i \in 1..Len(q) : SameObject(q[i], slug, ref)
    THEN q ELSE <<Item(slug, ref, from, en)>> \o q

\* enqueue: item.from = from is visible through every reference to the
\* object, then union( this.state.queued, [ item ] )
enqueue(q, slug, ref, from, en) ==
    LET marked == [i \in 1..Len(q) |->
                     IF SameObject(q[i], slug, ref)
                     THEN [q[i] EXCEPT !.from = from] ELSE q[i]]
    IN UnionById(marked, <<Item(slug, ref, from, en)>>, ref)

\* updateAll: union( queued, coreWithUpdate, pluginWithUpdate, themeWithUpdate )
updateAll(q, pf, en) ==
    UnionById(q, [i \in 1..Len(ItemOrder) |->
                    Item(ItemOrder[i], "props", pf[ItemOrder[i]], en)], "props")

\* number of updateItem calls for a slug in a log
Dispatches(lg, s) ==
    Len(SelectSeq(lg, LAMBDA e : e.call = "updateItem" /\ e.slug = s))

\* updateSingle: the request of every dispatched item becomes pending
updateSingle(hs, lg) ==
    [s \in Slugs |-> IF Dispatches(lg, s) > 0 THEN "pending" ELSE hs[s]]

\* showInfoNotice of updateItem replaces the notice alitemupdate-<slug>
InfoNotices(en, lg) ==
    [s \in Slugs |-> IF Dispatches(lg, s) > 0 THEN "none" ELSE en[s]]

\* queue entries stop being the object of a notice that is gone or replaced
Forget(q, en) ==
    [i \in 1..Len(q) |->
        [q[i] EXCEPT !.inNotice = (q[i].inNotice /\ en[q[i].slug] # "none")]]

Min(a, b) == IF a < b THEN a ELSE b

\* dispatches whose terminal status has not been observed (counted up to 2)
Launched(fl, lg) == [s \in Slugs |-> Min(2, fl[s] + Dispatches(lg, s))]

Terminal(st) == st \in {"error", "completed"}

Observed(fl, ps) == [s \in Slugs |-> IF Terminal(ps[s]) THEN 0 ELSE fl[s]]

\* "core": Update all dispatched core and core's terminal status is not yet
\* observed; "after": it was observed and nothing was dispatched since
PlanAfter(pl, lg, ps) ==
    LET seen == IF pl = "core" /\ Terminal(ps[CoreSlug]) THEN "after" ELSE pl
    IN IF seen = "after" /\ CallsOf(lg, "updateItem") # <<>> THEN "none" ELSE seen

\* effects shared by every handler that ends in continueQueue
RunCalls(lg) ==
    /\ log' = lg
    /\ plan' = IF lg[1].call = "trackUpdateAll"
               THEN (IF Dispatches(lg, CoreSlug) > 0 THEN "core" ELSE "none")
               ELSE IF plan = "after" /\ CallsOf(lg, "updateItem") # <<>>
               THEN "none" ELSE plan
    /\ httpState' = updateSingle(httpState, lg)
    /\ themeUpdateNull' = (themeUpdateNull /\ Dispatches(lg, ThemeSlug) = 0)
    /\ flight' = Launched(flight, lg)

\* ------------------------------------------- onboarding checklist
\* a url is the sequence of its parts, one of which may be the placeholder
\* $siteSlug; the urls of the tasks table
TaskUrls ==
    {<<"/me">>, <<"/settings/general/", "$siteSlug">>,
     <<"/post/", "$siteSlug", "/2">>}

SiteSlugs == {"example.blog", ""}

Locations == {"checklist_show", "checklist_header"}

\* the arguments { task, location, siteSlug } of launchTask and the answer
\* of isDesktop(); a task without url or tour has hasUrl or hasTour FALSE
LaunchArgs ==
    [completed : BOOLEAN, hasUrl : BOOLEAN, url : TaskUrls, hasTour : BOOLEAN,
     siteSlug : SiteSlugs, location : Locations, isDesktop : BOOLEAN]

\* no launchTask call is being looked at
NoLaunch ==
    [completed |-> FALSE, hasUrl |-> FALSE, url |-> <<"/me">>, hasTour |-> FALSE,
     siteSlug |-> "", location |-> "checklist_show", isDesktop |-> FALSE]

RECURSIVE ReplaceFirst(_, _, _)
\* String.prototype.replace with a string pattern: the first occurrence only
ReplaceFirst(url, pattern, by) ==
    IF url = <<>> THEN <<>>
    ELSE IF Head(url) = pattern THEN <<by>> \o Tail(url)
    ELSE <<Head(url)>> \o ReplaceFirst(Tail(url), pattern, by)

\* a string is truthy when it is not empty
Truthy(url) == \E i \in 1..Len(url) : url[i] # ""

\* launchTask that records the start of completed tasks too
launchTaskAlwaysTracks(a) ==
    LET url == IF a.hasUrl THEN ReplaceFirst(a.url, "$siteSlug", a.siteSlug) ELSE <<>>
    IN <<Call("launchTask", "", "")>> \o
       (IF ~a.hasTour /\ ~Truthy(url) THEN <<>>
        ELSE <<Call("track", "calypso_checklist_task_start", a.location)>> \o
             (IF Truthy(url) THEN <<Call("page", "", url)>> ELSE <<>>) \o
             (IF a.hasTour /\ a.isDesktop /\ ~a.completed
              THEN <<Call("requestTour", "", "")>> ELSE <<>>))

\* launchTask: the calls it makes, in order
launchTask(a) ==
    LET url == IF a.hasUrl THEN ReplaceFirst(a.url, "$siteSlug", a.siteSlug) ELSE <<>>
    IN <<Call("launchTask", "", "")>> \o
       (IF a.completed
        THEN (IF Truthy(url) THEN <<Call("page", "", url)>> ELSE <<>>)
        ELSE IF ~a.hasTour /\ ~Truthy(url) THEN <<>>
        ELSE <<Call("track", "calypso_checklist_task_start", a.location)>> \o
             (IF Truthy(url) THEN <<Call("page", "", url)>> ELSE <<>>) \o
             (IF a.hasTour /\ a.isDesktop
              THEN <<Call("requestTour", "", "")>> ELSE <<>>))

\* the tasks table: the fields title, completedTitle, completed, url and
\* tour of every task (description, duration, completedButtonText and image
\* are carried along in the same way)
tasks ==
    [avatar_uploaded |->
        [title |-> "Upload your profile picture",
         completedTitle |-> "You uploaded a profile picture",
         url |-> "/me", tour |-> "checklistUserAvatar"],
     blogname_set |->
        [title |-> "Give your new site a name",
         completedTitle |-> "You updated your site title",
         url |-> "/settings/general/$siteSlug", tour |-> "checklistSiteTitle"],
     blogdescription_set |->
        [title |-> "Create a tagline",
         completedTitle |-> "You created a tagline",
         url |-> "/settings/general/$siteSlug", tour |-> "checklistSiteTagline"],
     contact_page_updated |->
        [title |-> "Personalize your Contact page",
         completedTitle |-> "You updated your Contact page",
         url |-> "/post/$siteSlug/2", tour |-> "checklistContactPage"],
     domain_selected |->
        [title |-> "Pick a website address",
         completedTitle |-> "You picked a website address",
         completed |-> TRUE],
     post_published |->
        [title |-> "Publish your first blog post",
         completedTitle |-> "You published your first blog post",
         url |-> "/post/$siteSlug", tour |-> "checklistPublishPost"],
     site_created |->
        [title |-> "Create your site",
         completedTitle |-> "You created your site",
         completed |-> TRUE],
     site_icon_set |->
        [title |-> "Upload a site icon",
         completedTitle |-> "You uploaded a site icon",
         url |-> "/settings/general/$siteSlug", tour |-> "checklistSiteIcon"]]

sequence ==
    <<"site_created", "domain_selected", "blogname_set", "site_icon_set",
      "blogdescription_set", "avatar_uploaded", "contact_page_updated",
      "post_published">>

\* object spread { ...a, ...b }: the fields of both, those of b winning
Spread(a, b) ==
    [f \in DOMAIN a \cup DOMAIN b |-> IF f \in DOMAIN b THEN b[f] ELSE a[f]]

\* an object without fields; spreading undefined adds nothing either
NoFields == [f \in {} |-> TRUE]

\* ids under which the server reports tasks; the last is not in sequence
ServerIds == {"site_created", "blogname_set", "post_published", "email_verified"}

\* task objects of the server
ServerTasks ==
    {[completed |-> TRUE], [completed |-> FALSE],
     [completed |-> TRUE, title |-> "Name your site"]}

\* the argument of onboardingTasks: no checklist, a checklist without
\* tasks, or a checklist whose tasks object is keyed by task id
Checklists ==
    {[present |-> p, hasTasks |-> FALSE, tasks |-> NoFields] : p \in BOOLEAN}
      \cup {[present |-> TRUE, hasTasks |-> TRUE, tasks |-> t] :
               t \in UNION {[ids -> ServerTasks] : ids \in SUBSET ServerIds}}

NoChecklist == [present |-> FALSE, hasTasks |-> FALSE, tasks |-> NoFields]

\* onboardingTasks has not been called
NotCalled == [called |-> FALSE, isNull |-> FALSE, entries |-> <<>>]

\* onboardingTasks in which the fields of the table win over the server's
onboardingTasksTableWins(c) ==
    IF ~c.present \/ ~c.hasTasks
    THEN [called |-> TRUE, isNull |-> TRUE, entries |-> <<>>]
    ELSE [called |-> TRUE, isNull |-> FALSE,
          entries |->
            [i \in 1..Len(sequence) |->
               LET id == sequence[i]
                   taskFromServer == IF id \in DOMAIN c.tasks
                                     THEN c.tasks[id] ELSE NoFields
               IN Spread(Spread([id |-> id], taskFromServer), tasks[id])]]

\* onboardingTasks: null, or sequence.map( id => ( { id, ...task,
\* ...taskFromServer } ) )
onboardingTasks(c) ==
    IF ~c.present \/ ~c.hasTasks
    THEN [called |-> TRUE, isNull |-> TRUE, entries |-> <<>>]
    ELSE [called |-> TRUE, isNull |-> FALSE,
          entries |->
            [i \in 1..Len(sequence) |->
               LET id == sequence[i]
                   task == tasks[id]
                   taskFromServer == IF id \in DOMAIN c.tasks
                                     THEN c.tasks[id] ELSE NoFields
               IN Spread(Spread([id |-> id], task), taskFromServer)]]

\* ---------------------------------------------------------------- Init
Init ==
    /\ mounted = TRUE
    /\ httpState = [s \in Slugs |-> "uninitialized"]
    /\ themeUpdateNull = FALSE
    /\ propStatus = [s \in Slugs |-> "false"]
    /\ propFrom = [s \in Slugs |-> "undefined"]
    /\ queued = <<>>
    /\ dismissed = <<>>
    /\ errNotice = [s \in Slugs |-> "none"]
    /\ flight = [s \in Slugs |-> 0]
    /\ clicks = 0
    /\ plan = "none"
    /\ log = <<>>
    /\ launch = NoLaunch
    /\ checklist = NoChecklist
    /\ onboarding = NotCalled

\* ------------------------------------------------------------- actions
\* the Update button of a rendered item: this.enqueue( item )
ClickUpdate(s) ==
    /\ mounted
    /\ clicks < MaxClicks
    /\ clicks' = clicks + 1
    /\ UNCHANGED checklistVars
    /\ s \in itemsToUpdate(dismissed)
    /\ ~isItemEnqueued(s, queued)
    /\ LET q1 == enqueue(queued, s, "props", "", errNotice)
       IN /\ propFrom' = [propFrom EXCEPT ![s] = ""]
          /\ RunCalls(<<Call("enqueue", s, "")>> \o continueQueue(q1, propStatus))
          /\ errNotice' = InfoNotices(errNotice, log')
          /\ queued' = Forget(q1, errNotice')
    /\ UNCHANGED <<mounted, propStatus, dismissed>>

\* the Try again button of an error notice: this.enqueue( item, '_from_error' )
ClickRetry(s) ==
    /\ mounted
    /\ clicks < MaxClicks
    /\ clicks' = clicks + 1
    /\ UNCHANGED checklistVars
    /\ errNotice[s] # "none"
    /\ LET q1 == enqueue(queued, s, "notice", "_from_error", errNotice)
       IN /\ propFrom' = IF errNotice[s] = "current"
                         THEN [propFrom EXCEPT ![s] = "_from_error"]
                         ELSE propFrom
          /\ RunCalls(<<Call("enqueue", s, "_from_error")>>
                        \o continueQueue(q1, propStatus))
          /\ errNotice' = InfoNotices(errNotice, log')
          /\ queued' = Forget(q1, errNotice')
    /\ UNCHANGED <<mounted, propStatus, dismissed>>

\* the Update all button: shown for more than one update, disabled while
\* something is queued
ClickUpdateAll ==
    /\ mounted
    /\ clicks < MaxClicks
    /\ clicks' = clicks + 1
    /\ UNCHANGED checklistVars
    /\ 1 < Cardinality(itemsToUpdate(dismissed))
    /\ ~(0 < Len(queued))
    /\ LET q1 == updateAll(queued, propFrom, errNotice)
       IN /\ RunCalls(<<Call("trackUpdateAll", "", "")>>
                        \o continueQueue(q1, propStatus))
          /\ errNotice' = InfoNotices(errNotice, log')
          /\ queued' = Forget(q1, errNotice')
    /\ UNCHANGED <<mounted, propStatus, propFrom, dismissed>>

\* the Dismiss entry of a rendered item: this.dismiss( item )
ClickDismiss(s) ==
    /\ mounted
    /\ clicks < MaxClicks
    /\ clicks' = clicks + 1
    /\ UNCHANGED checklistVars
    /\ s \in itemsToUpdate(dismissed)
    /\ dismissed' = dismiss(dismissed, TRUE, s)
    /\ log' = <<Call("dismiss", s, "")>>
    /\ UNCHANGED <<mounted, httpState, themeUpdateNull, propStatus, propFrom,
                   queued, errNotice, flight, plan>>

\* the Dismiss all entry: this.dismiss( event ), event.slug is not a string
ClickDismissAll ==
    /\ mounted
    /\ clicks < MaxClicks
    /\ clicks' = clicks + 1
    /\ UNCHANGED checklistVars
    /\ 1 < Cardinality(itemsToUpdate(dismissed))
    /\ dismissed' = dismiss(dismissed, FALSE, "")
    /\ log' = <<Call("dismissAll", "", "")>>
    /\ UNCHANGED <<mounted, httpState, themeUpdateNull, propStatus, propFrom,
                   queued, errNotice, flight, plan>>

\* componentDidUpdate that also acts on an item whose previous updateStatus
\* was false
ReconciledFromFalse(prev, cur, s) ==
    /\ prev[s] # cur[s]
    /\ cur[s] \in {"error", "completed"}

\* componentDidUpdate acts on an item whose previous updateStatus was not
\* false, whose status changed and which is not updating now
Reconciled(prev, cur, s) ==
    /\ prev[s] # "false"
    /\ prev[s] # cur[s]
    /\ ~isItemUpdating(cur, {s})
    /\ Terminal(cur[s])

\* calls made by the each() loop of componentDidUpdate, in item order
RECURSIVE ReconcileCalls(_, _, _)
ReconcileCalls(prev, cur, items) ==
    IF items = <<>> THEN <<>>
    ELSE LET s == Head(items)
             calls == IF ~Reconciled(prev, cur, s) THEN <<>>
                      ELSE IF cur[s] = "error"
                      THEN <<Call("showErrorNotice", s, ""), Call("dequeue", s, "")>>
                      ELSE <<Call("showSuccessNotice", s, ""), Call("dismiss", s, ""),
                             Call("dequeue", s, "")>>
         IN calls \o ReconcileCalls(prev, cur, Tail(items))

\* setState merges the partial states of one lifecycle call after it
\* returns: every dismiss and dequeue of the loop reads the same this.state
BatchedDismissed(dis, calls) ==
    LET ds == CallsOf(calls, "dismiss")
    IN IF ds = <<>> THEN dis ELSE dismiss(dis, TRUE, ds[Len(ds)].slug)

BatchedQueued(q, calls) ==
    IF CallsOf(calls, "dequeue") = <<>> THEN q ELSE dequeue(q)

\* the setState callbacks: one continueQueue per dequeue, run after the
\* state is committed
RECURSIVE Callbacks(_, _, _)
Callbacks(n, q, ps) ==
    IF n = 0 THEN <<>> ELSE continueQueue(q, ps) \o Callbacks(n - 1, q, ps)

\* notices alitemupdate-<slug> left by the loop: the error notice keeps the
\* item of the new props, the success notice replaces an error notice
ReconcileNotices(en, prev, cur) ==
    [s \in Slugs |->
        IF ~Reconciled(prev, cur, s)
        THEN (IF en[s] = "current" THEN "stale" ELSE en[s])
        ELSE IF cur[s] = "error" THEN "current" ELSE "none"]

\* the queue entries after this.props is replaced: none of them is an object
\* of the new props, nor the object of a notice shown for the new props
Aged(q, prev, cur) ==
    [i \in 1..Len(q) |->
        [q[i] EXCEPT !.inProps = FALSE,
                     !.inNotice = (q[i].inNotice /\ ~Reconciled(prev, cur, q[i].slug))]]

\* the store changed: mapStateToProps builds new props, the component
\* re-renders and componentDidUpdate( prevProps ) runs
Refresh ==
    /\ mounted
    /\ UNCHANGED <<clicks, checklistVars>>
    /\ LET cur == mapStateToProps(httpState, themeUpdateNull)
           calls == ReconcileCalls(propStatus, cur, ItemOrder)
           q1 == BatchedQueued(Aged(queued, propStatus, cur), calls)
           cbs == Callbacks(Len(CallsOf(calls, "dequeue")), q1, cur)
       IN /\ propStatus' = cur
          /\ propFrom' = [s \in Slugs |-> "undefined"]
          /\ dismissed' = BatchedDismissed(dismissed, calls)
          /\ log' = <<Call("componentDidUpdate", "", "")>> \o calls \o cbs
          /\ plan' = PlanAfter(plan, cbs, cur)
          /\ httpState' = updateSingle(httpState, cbs)
          /\ themeUpdateNull' = (themeUpdateNull /\ Dispatches(cbs, ThemeSlug) = 0)
          /\ flight' = Launched(Observed(flight, cur), cbs)
          /\ errNotice' = InfoNotices(
                 ReconcileNotices(errNotice, propStatus, cur), cbs)
          /\ queued' = Forget(q1, errNotice')
    /\ UNCHANGED mounted

\* the request of an item ends, the response is stored
FinishUpdate(s, outcome, updNull) ==
    /\ UNCHANGED <<clicks, checklistVars>>
    /\ httpState[s] = "pending"
    /\ outcome \in {"failure", "success"}
    /\ updNull => (TypeOf(s) = "theme" /\ outcome = "success")
    /\ httpState' = [httpState EXCEPT ![s] = outcome]
    /\ themeUpdateNull' = IF TypeOf(s) = "theme" THEN updNull ELSE themeUpdateNull
    /\ log' = <<>>
    /\ UNCHANGED <<mounted, propStatus, propFrom, queued, dismissed,
                   errNotice, flight, plan>>

\* a page.exit handler that lets every navigation pass
NavigateUnguarded(confirmed) ==
    /\ mounted
    /\ clicks < MaxClicks
    /\ clicks' = clicks + 1
    /\ UNCHANGED checklistVars
    /\ confirmed = TRUE
    /\ log' = <<Call("next", "", "")>>
    /\ mounted' = FALSE
    /\ queued' = <<>>
    /\ dismissed' = <<>>
    /\ propStatus' = [s \in Slugs |-> "false"]
    /\ propFrom' = [s \in Slugs |-> "undefined"]
    /\ errNotice' = [s \in Slugs |-> "none"]
    /\ plan' = "none"
    /\ UNCHANGED <<httpState, themeUpdateNull, flight>>

\* page.exit handler registered by componentDidMount
Navigate(confirmed) ==
    /\ mounted
    /\ clicks < MaxClicks
    /\ clicks' = clicks + 1
    /\ UNCHANGED checklistVars
    /\ IF ~(0 < Len(queued)) \/ confirmed
       THEN /\ log' = (IF 0 < Len(queued) THEN <<Call("confirm", "", "yes")>> ELSE <<>>)
                        \o <<Call("next", "", "")>>
            /\ mounted' = FALSE
            /\ queued' = <<>>
            /\ dismissed' = <<>>
            /\ propStatus' = [s \in Slugs |-> "false"]
            /\ propFrom' = [s \in Slugs |-> "undefined"]
            /\ errNotice' = [s \in Slugs |-> "none"]
            /\ plan' = "none"
       ELSE /\ log' = <<Call("confirm", "", "no"), Call("replace", "", "")>>
            /\ UNCHANGED <<mounted, queued, dismissed, propStatus, propFrom,
                           errNotice, plan>>
    /\ UNCHANGED <<httpState, themeUpdateNull, flight>>

\* while the view is closed a plugin update is started from another screen:
\* getStatusForPlugin reads the status from the application state
UpdatePluginElsewhere ==
    /\ ~mounted
    /\ UNCHANGED <<clicks, checklistVars>>
    /\ httpState[PluginSlug] # "pending"
    /\ httpState' = [httpState EXCEPT ![PluginSlug] = "pending"]
    /\ log' = <<>>
    /\ UNCHANGED <<mounted, themeUpdateNull, propStatus, propFrom, queued,
                   dismissed, errNotice, flight, plan>>

\* the view is opened again: a new component with the initial state
Mount ==
    /\ ~mounted
    /\ UNCHANGED <<clicks, checklistVars>>
    /\ mounted' = TRUE
    /\ propStatus' = mapStateToProps(httpState, themeUpdateNull)
    /\ flight' = Observed(flight, propStatus')
    /\ log' = <<Call("mount", "", "")>>
    /\ UNCHANGED <<httpState, themeUpdateNull, propFrom, queued, dismissed,
                   errNotice, plan>>

Next ==
    \/ \E s \in Slugs : ClickUpdate(s)
    \/ \E s \in Slugs : ClickRetry(s)
    \/ ClickUpdateAll
    \/ \E s \in Slugs : ClickDismiss(s)
    \/ ClickDismissAll
    \/ Refresh
    \/ \E s \in Slugs, o \in {"failure", "success"}, n \in BOOLEAN : FinishUpdate(s, o, n)
    \/ \E c \in BOOLEAN : Navigate(c)
    \/ UpdatePluginElsewhere
    \/ Mount

Spec == Init /\ [][Next]_vars

\* a checklist task is launched: any arguments, launchTask applied once
LaunchInit ==
    /\ mounted = FALSE
    /\ httpState = [s \in Slugs |-> "uninitialized"]
    /\ themeUpdateNull = FALSE
    /\ propStatus = [s \in Slugs |-> "false"]
    /\ propFrom = [s \in Slugs |-> "undefined"]
    /\ queued = <<>>
    /\ dismissed = <<>>
    /\ errNotice = [s \in Slugs |-> "none"]
    /\ flight = [s \in Slugs |-> 0]
    /\ clicks = 0
    /\ plan = "none"
    /\ log = <<>>
    /\ launch \in LaunchArgs
    /\ checklist = NoChecklist
    /\ onboarding = NotCalled

LaunchTask ==
    /\ log = <<>>
    /\ log' = launchTask(launch)
    /\ UNCHANGED <<mounted, httpState, themeUpdateNull, propStatus, propFrom,
                   queued, dismissed, errNotice, flight, clicks, plan,
                   launch, checklist, onboarding>>

LaunchNext == LaunchTask

LaunchSpec == LaunchInit /\ [][LaunchNext]_vars

\* the checklist is read: any argument, onboardingTasks applied once
TasksInit ==
    /\ mounted = FALSE
    /\ httpState = [s \in Slugs |-> "uninitialized"]
    /\ themeUpdateNull = FALSE
    /\ propStatus = [s \in Slugs |-> "false"]
    /\ propFrom = [s \in Slugs |-> "undefined"]
    /\ queued = <<>>
    /\ dismissed = <<>>
    /\ errNotice = [s \in Slugs |-> "none"]
    /\ flight = [s \in Slugs |-> 0]
    /\ clicks = 0
    /\ plan = "none"
    /\ log = <<>>
    /\ launch = NoLaunch
    /\ checklist \in Checklists
    /\ onboarding = NotCalled

OnboardingTasks ==
    /\ ~onboarding.called
    /\ onboarding' = onboardingTasks(checklist)
    /\ UNCHANGED <<mounted, httpState, themeUpdateNull, propStatus, propFrom,
                   queued, dismissed, errNotice, flight, clicks, plan, log,
                   launch, checklist>>

TasksNext == OnboardingTasks

TasksSpec == TasksInit /\ [][TasksNext]_vars

TypeOK ==
    /\ mounted \in BOOLEAN
    /\ httpState \in [Slugs -> RawStates]
    /\ themeUpdateNull \in BOOLEAN
    /\ propStatus \in [Slugs -> Statuses]
    /\ propFrom \in [Slugs -> FromVals]
    /\ \A i \in 1..Len(queued) :
          /\ queued[i].slug \in Slugs
          /\ queued[i].from \in FromVals
          /\ queued[i].inProps \in BOOLEAN
          /\ queued[i].inNotice \in BOOLEAN
          /\ queued[i].inNotice => errNotice[queued[i].slug] # "none"
          /\ (queued[i].inProps /\ errNotice[queued[i].slug] = "current")
                => queued[i].inNotice
          /\ (queued[i].inNotice /\ errNotice[queued[i].slug] = "current")
                => queued[i].inProps
    /\ Range(dismissed) \subseteq Slugs
    /\ errNotice \in [Slugs -> NoticeVals]
    /\ flight \in [Slugs -> 0..2]
    /\ clicks \in 0..MaxClicks
    /\ plan \in {"none", "core", "after"}
    /\ launch = NoLaunch
    /\ checklist = NoChecklist
    /\ onboarding = NotCalled

\* ---------------------------------------------------------------- claims
SlugsOf(q) == [i \in 1..Len(q) |-> q[i].slug]

\* the object an enqueue call names is already in the queue
Present(q, c) ==
    \E i \in 1..Len(q) :
        SameObject(q[i], c.slug, IF c.arg = "_from_error" THEN "notice" ELSE "props")

Enqueues(lg) == CallsOf(lg, "enqueue")

Dequeues(lg) == CallsOf(lg, "dequeue")

C2_ContinueQueueGuard ==
    \A i \in 1..Len(log) :
        /\ log[i].call = "updateItem" =>
              /\ i > 1 /\ log[i - 1].call = "continueQueue"
              /\ 0 < Len(queued)
              /\ \A s \in Slugs : propStatus[s] # "inProgress"
              /\ log[i].slug = queued[1].slug
        /\ (/\ log[i].call = "continueQueue"
            /\ 0 < Len(queued)
            /\ \A s \in Slugs : propStatus[s] # "inProgress") =>
              /\ i < Len(log)
              /\ log[i + 1] = Call("updateItem", queued[1].slug, queued[1].from)

\* continueQueue ran with items queued and an item inProgress and made no
\* call, and the queue holds more than the head
C2_Witness ==
    /\ \E i \in 1..Len(log) : log[i].call = "continueQueue"
    /\ CallsOf(log, "updateItem") = <<>>
    /\ Len(queued) >= 2
    /\ \E s \in Slugs : propStatus[s] = "inProgress"

\* C3 as claimed: at most one update dispatched by updateItem is in flight,
\* no updateItem call is made between a dispatch and the observation of the
\* terminal status of the dispatched item.
C3_OneInFlight ==
    /\ \A s \in Slugs : flight[s] <= 1
    /\ Cardinality({s \in Slugs : flight[s] > 0}) <= 1

\* calls of one kind made for one slug
CallsFor(lg, c, s) == SelectSeq(lg, LAMBDA e : e.call = c /\ e.slug = s)

\* the handler that ran last is componentDidUpdate after a change of props
Reconciling(lg) == lg # <<>> /\ lg[1].call = "componentDidUpdate"

\* C4 as claimed: when reconciliation finds that the status of an item has
\* changed to completed it calls dismiss once and dequeue once for the item,
\* afterwards the slug is in dismissed and queued is one entry shorter per
\* dequeue call; an item whose status did not change gets no notice, dismiss
\* or dequeue; also when several items change in the same refresh.
C4_CompletedReconciled ==
    [][Reconciling(log') =>
         \A s \in Slugs :
            /\ (Reconciled(propStatus, propStatus', s) /\ propStatus'[s] = "completed") =>
                  /\ Len(CallsFor(log', "dismiss", s)) = 1
                  /\ Len(CallsFor(log', "dequeue", s)) = 1
                  /\ Len(CallsFor(log', "showSuccessNotice", s)) = 1
                  /\ s \in Range(dismissed')
                  /\ Len(queued') = Len(queued) - Len(Dequeues(log'))
            /\ propStatus'[s] = propStatus[s] =>
                  /\ CallsFor(log', "dismiss", s) = <<>>
                  /\ CallsFor(log', "dequeue", s) = <<>>
                  /\ CallsFor(log', "showSuccessNotice", s) = <<>>
                  /\ CallsFor(log', "showErrorNotice", s) = <<>>]_vars

\* C5 as claimed: Update all on an empty queue leaves queued = [core,
\* pluginA, themeB] and dispatches core only; pluginA and themeB stay queued
\* and are not dispatched until the terminal status of core is observed,
\* and the next item dispatched after that is pluginA.
C5_UpdateAllSequence ==
    [][/\ (log' # <<>> /\ log'[1].call = "trackUpdateAll" /\ queued = <<>>) =>
            /\ SlugsOf(queued') = ItemOrder
            /\ \A i \in 1..Len(log') :
                  log'[i].call = "updateItem" => log'[i].slug = CoreSlug
       /\ (plan = "core" /\ mounted' /\ ~Terminal(propStatus'[CoreSlug])) =>
            /\ Len(queued') >= Len(ItemOrder)
            /\ SubSeq(SlugsOf(queued'), 1, Len(ItemOrder)) = ItemOrder
            /\ \A i \in 1..Len(log') :
                  log'[i].call = "updateItem" => log'[i].slug = CoreSlug
       /\ ((plan = "core" /\ mounted' /\ Terminal(propStatus'[CoreSlug]))
             \/ plan = "after") =>
            \A i \in 1..Len(log') :
                  log'[i].call = "updateItem" => log'[i].slug = PluginSlug]_vars

\* the handler that ran last is the Try again action of an error notice
Retrying(lg) ==
    lg # <<>> /\ lg[1].call = "enqueue" /\ lg[1].arg = "_from_error"

\* C6 as claimed: an observed error shows the error notice and calls
\* dequeue; the retry action calls enqueue( item, '_from_error' ), which
\* puts the item at the tail behind the entries already queued, and adds no
\* second entry for an item that is already queued.
C6_RetryAtTail ==
    [][/\ Reconciling(log') =>
            \A s \in Slugs :
               (Reconciled(propStatus, propStatus', s) /\ propStatus'[s] = "error") =>
                  /\ Len(CallsFor(log', "showErrorNotice", s)) = 1
                  /\ Len(CallsFor(log', "dequeue", s)) = 1
       /\ Retrying(log') =>
            SlugsOf(queued') =
               IF isItemEnqueued(log'[1].slug, queued)
               THEN SlugsOf(queued)
               ELSE Append(SlugsOf(queued), log'[1].slug)]_vars

\* the handler that ran last is a dismiss called by the user
Dismissing(lg) == lg # <<>> /\ lg[1].call \in {"dismiss", "dismissAll"}

C8_DismissAdds ==
    [][(CallsOf(log', "dismiss") # <<>> \/ CallsOf(log', "dismissAll") # <<>>) =>
         /\ Range(dismissed') =
              Range(dismissed)
                \cup {s \in Slugs : CallsFor(log', "dismiss", s) # <<>>}
                \cup (IF CallsOf(log', "dismissAll") # <<>> THEN Slugs ELSE {})
         /\ Len(dismissed') = Cardinality(Range(dismissed'))
         /\ SubSeq(dismissed', 1, Len(dismissed)) = dismissed
         /\ Dismissing(log') => queued' = queued]_vars

C10_DequeuesFinishedItem ==
    [][\A i \in 1..Len(log') :
          (log'[i].call = "dequeue" /\ queued # <<>>) =>
             /\ queued[1].slug = log'[i].slug
             /\ SlugsOf(queued') = Tail(SlugsOf(queued))]_vars

\* the status the normalization is claimed to give for a request state
ClaimedStatus(state) ==
    IF state = "pending" THEN "inProgress"
    ELSE IF state = "failure" THEN "error"
    ELSE IF state = "success" THEN "completed"
    ELSE "false"

\* C11 as claimed: the props computed on a refresh show uninitialized as
\* false, pending as inProgress, failure as error and success as completed,
\* for the core update in particular (a theme response that still lists the
\* update is left aside).
C11_Normalization ==
    [][Reconciling(log') =>
         \A s \in Slugs :
            (TypeOf(s) = "theme" /\ httpState[s] = "success" /\ ~themeUpdateNull)
              \/ propStatus'[s] = ClaimedStatus(httpState[s])]_vars

\* C12 as claimed: no handler adds to queued an item whose slug is in
\* dismissed, and no updateItem call is made for a dismissed item whose
\* status is completed.
C12_DismissedNotRequeued ==
    [][/\ \A s \in Range(dismissed) :
             isItemEnqueued(s, queued') => isItemEnqueued(s, queued)
       /\ \A i \in 1..Len(log') :
             (log'[i].call = "updateItem" /\ log'[i].slug \in Range(dismissed))
                => propStatus[log'[i].slug] # "completed"]_vars

\* C13 as claimed: when reconciliation finds that the status of an item has
\* changed to error, the item is no longer in queued afterwards and the
\* pass makes no updateItem call for it: a failed item is dispatched again
\* only after the user has enqueued it again.
C13_NoAutomaticRetry ==
    [][Reconciling(log') =>
         \A s \in Slugs :
            (Reconciled(propStatus, propStatus', s) /\ propStatus'[s] = "error") =>
               /\ ~isItemEnqueued(s, queued')
               /\ CallsFor(log', "updateItem", s) = <<>>]_vars

\* C14 as claimed: the field from of every entry of queued and of every item
\* passed to updateItem is '' or '_from_error', and an enqueue call leaves
\* its item in queued with the from it was called with.
C14_Provenance ==
    /\ \A i \in 1..Len(queued) : queued[i].from \in {"", "_from_error"}
    /\ \A i \in 1..Len(log) :
          log[i].call = "updateItem" => log[i].arg \in {"", "_from_error"}
    /\ (log # <<>> /\ log[1].call = "enqueue") =>
          \E i \in 1..Len(queued) :
             queued[i].slug = log[1].slug /\ queued[i].from = log[1].arg

\* C15 as claimed, for a view that stays mounted: a handler that calls
\* updateItem leaves dismissed unchanged and removes nothing from queued;
\* queued shrinks only in a reconciliation pass that calls dequeue; and the
\* head of queued, once dispatched, stays the head while its request is
\* running.
C15_UpdateItemFrame ==
    [][(mounted /\ mounted') =>
         /\ (CallsOf(log', "updateItem") # <<>> /\ ~Reconciling(log')) =>
               /\ dismissed' = dismissed
               /\ Len(queued') >= Len(queued)
               /\ SubSeq(SlugsOf(queued'), 1, Len(queued)) = SlugsOf(queued)
         /\ Len(queued') < Len(queued) =>
               (Reconciling(log') /\ Dequeues(log') # <<>>)
         /\ (/\ queued # <<>>
             /\ flight[queued[1].slug] > 0
             /\ httpState[queued[1].slug] = "pending"
             /\ httpState'[queued[1].slug] = "pending") =>
               (queued' # <<>> /\ queued'[1].slug = queued[1].slug)]_vars

\* calls that reconciliation makes for one item
ActsOn(lg, s) ==
    SelectSeq(lg, LAMBDA e : e.slug = s /\ e.call \in
        {"showErrorNotice", "showSuccessNotice", "dismiss", "dequeue"})

\* C16: on a status refresh reconciliation makes no call for an item whose
\* previous status was false, whose status did not change or whose status
\* is inProgress, and leaves queued and dismissed as they are when every
\* item is such; it acts exactly on the items whose previous status was not
\* false and whose status changed to error or completed.
C16_ReconcileOnlyOnChange ==
    [][Reconciling(log') =>
         /\ \A s \in Slugs :
               ActsOn(log', s) # <<>> <=>
                  /\ propStatus[s] # "false"
                  /\ propStatus'[s] # propStatus[s]
                  /\ propStatus'[s] \in {"error", "completed"}
         /\ (\A s \in Slugs : \/ propStatus[s] = "false"
                              \/ propStatus'[s] = propStatus[s]
                              \/ propStatus'[s] = "inProgress") =>
               /\ SlugsOf(queued') = SlugsOf(queued)
               /\ dismissed' = dismissed
               /\ Len(log') = 1]_vars

\* a refresh has shown the head of queued with a terminal status and
\* reconciliation made no call: no notice is up and nothing was dismissed
C16_Witness ==
    /\ Reconciling(log)
    /\ Len(log) = 1
    /\ queued # <<>>
    /\ Terminal(propStatus[queued[1].slug])
    /\ errNotice[queued[1].slug] = "none"
    /\ queued[1].slug \notin Range(dismissed)

\* every running request ends and every change of the store reaches the
\* component; the user is free to stop
FairSpec ==
    /\ Spec
    /\ WF_vars(Refresh)
    /\ \A s \in Slugs :
          WF_vars(\E o \in {"failure", "success"}, n \in BOOLEAN : FinishUpdate(s, o, n))

\* C17 as claimed: when every dispatched update reports a terminal status
\* and the user stops enqueueing, a non-empty queued eventually becomes
\* empty, also when a status is first observed already terminal.
C17_QueueDrains ==
    (queued # <<>>) ~> (queued = <<>>)

\* C18 as claimed: a continueQueue triggered by enqueue or updateAll makes
\* no updateItem call for an item that was dispatched already and whose
\* request is still running.
C18_HeadDispatchedOnce ==
    [][~Reconciling(log') =>
         \A i \in 1..Len(log') :
            log'[i].call = "updateItem" =>
               ~(flight[log'[i].slug] > 0 /\ httpState[log'[i].slug] = "pending")]_vars

\* C19 as claimed: queued never holds two entries with the same slug.
C19_NoDuplicateSlug ==
    \A i, j \in 1..Len(queued) :
        queued[i].slug = queued[j].slug => i = j

\* launchTask has run
Launching(lg) == lg # <<>> /\ lg[1].call = "launchTask"

\* position of the first call of one kind in a log, 0 when there is none
FirstCall(lg, c) ==
    IF CallsOf(lg, c) = <<>> THEN 0
    ELSE CHOOSE i \in 1..Len(lg) :
            lg[i].call = c /\ \A j \in 1..(i - 1) : lg[j].call # c

\* C20: launchTask records calypso_checklist_task_start once, before any
\* navigation or tour request, exactly when the task is not completed and
\* has a url or a tour; a completed task is not recorded and gets no tour,
\* and is navigated to only if it has a url; a task with neither url nor
\* tour has no effect; a tour is requested only on a desktop viewport.
C20_LaunchTask ==
    Launching(log) =>
       LET started == ~launch.completed /\ (launch.hasUrl \/ launch.hasTour)
       IN /\ Len(CallsOf(log, "track")) = (IF started THEN 1 ELSE 0)
          /\ \A i \in 1..Len(log) :
                log[i].call = "track" =>
                   /\ log[i].slug = "calypso_checklist_task_start"
                   /\ log[i].arg = launch.location
          /\ started =>
                /\ FirstCall(log, "track") = 2
                /\ Len(CallsOf(log, "page")) = (IF launch.hasUrl THEN 1 ELSE 0)
          /\ launch.completed =>
                /\ CallsOf(log, "requestTour") = <<>>
                /\ Len(CallsOf(log, "page")) = (IF launch.hasUrl THEN 1 ELSE 0)
          /\ (~launch.hasUrl /\ ~launch.hasTour) => Len(log) = 1
          /\ CallsOf(log, "requestTour") # <<>> =>
                (launch.isDesktop /\ launch.hasTour /\ Len(CallsOf(log, "requestTour")) = 1)

\* a task that is not completed and has a url and a tour was launched on a
\* desktop viewport: recorded, navigated to, tour requested
C20_Witness ==
    /\ Launching(log)
    /\ ~launch.completed /\ launch.hasUrl /\ launch.hasTour /\ launch.isDesktop
    /\ Len(log) = 4
    /\ log[2].call = "track" /\ log[3].call = "page" /\ log[4].call = "requestTour"

\* the server's task object for an id, without fields when there is none
FromServer(c, id) == IF id \in DOMAIN c.tasks THEN c.tasks[id] ELSE NoFields

\* C21: onboardingTasks returns null exactly when the checklist or its
\* tasks are missing; otherwise one entry per id of sequence, in the order
\* of sequence (site_created first, post_published last), each with its id,
\* with every field of the server's task as the server gave it and every
\* other field of the table as the table has it, and nothing else; a
\* server task whose id is not in sequence is not returned.
C21_OnboardingTasks ==
    onboarding.called =>
       /\ onboarding.isNull <=> (~checklist.present \/ ~checklist.hasTasks)
       /\ ~onboarding.isNull =>
             LET e == onboarding.entries
             IN /\ Len(e) = 8
                /\ e[1].id = "site_created"
                /\ e[8].id = "post_published"
                /\ \A i \in 1..Len(e) :
                      LET id == sequence[i]
                          srv == FromServer(checklist, id)
                      IN /\ e[i].id = id
                         /\ DOMAIN e[i] = {"id"} \cup DOMAIN tasks[id] \cup DOMAIN srv
                         /\ \A f \in DOMAIN srv : e[i][f] = srv[f]
                         /\ \A f \in DOMAIN tasks[id] \ DOMAIN srv :
                               e[i][f] = tasks[id][f]
                /\ \A i, j \in 1..Len(e) : e[i].id = e[j].id => i = j
                /\ \A id \in DOMAIN checklist.tasks :
                      (\A i \in 1..Len(sequence) : sequence[i] # id) =>
                         \A i \in 1..Len(e) : e[i].id # id

\* the server reported a task that is not in sequence and reported
\* site_created as not completed: the entry of site_created says so
C21_Witness ==
    /\ onboarding.called
    /\ ~onboarding.isNull
    /\ "email_verified" \in DOMAIN checklist.tasks
    /\ "site_created" \in DOMAIN checklist.tasks
    /\ checklist.tasks["site_created"] = [completed |-> FALSE]
    /\ onboarding.entries[1].completed = FALSE
    /\ onboarding.entries[1].title = "Create your site"

====
